---- MODULE Spec2Model ----
\* State-machine model of the njalla-dns-go client library: client
\* construction (NewClient and its options), request building (NewRequest),
\* response handling (DoRequest) and the list-then-mutate operations of the
\* Domain, Record, Forward and Glue sub-clients.
EXTENDS Integers, Sequences, FiniteSets, TLC

\* ------------------------------------------------------------------ bounds
\* Number of characters the key pattern asks for: regexp "[a-z0-9]{40}".
KeyLen == 40
\* Longest run of non-pattern characters put in front of a key.
MaxPad == 1
\* Longest collection a list response carries.
MaxList == 1
\* Longest option list handed to NewClient.
MaxOpts == 2
\* Deepest nesting of the JSON values taken as result payloads.
MaxDepth == 2

\* http.StatusOK, and the other statuses a response may carry.
StatusOK == 200
OtherStatuses == {500}

\* ------------------------------------------------------------ value domains
Domains == {"x.com", "y.com"}
IDs == {"1", "2"}
Names == {"www", "mx"}
Addrs == {"a@x.com", "b@y.com"}
\* The remaining attributes of a resource taken together (record type,
\* content and ttl; glue addresses; domain flags).
Attrs == {"A", "TXT"}
\* The attribute values of the object a mutating or get call answers with.
Data == {"r1", "r2"}
AppNames == {"", "Foo"}
AppVersions == {"", "1.0"}

\* Characters of the class [a-z0-9] and characters outside it.
LowerAlnum == {"a", "z", "0", "9"}
OtherChars == {"A"}

Rep(c, n) == [i \in 1..n |-> c]

\* Keys a caller may pass to APIKey: a run of pattern characters of length 0,
\* KeyLen-1 or KeyLen behind 0..MaxPad characters outside the class, and a run
\* of KeyLen+1 pattern characters.
Keys ==
  { Rep("A", i) \o Rep("a", n) : i \in 0..MaxPad, n \in {0, KeyLen - 1, KeyLen} }
  \cup { Rep("a", KeyLen + 1) }

\* --------------------------------------------------------------- the client
\* const UserAgent / Endpoint: the fixed default strings of the package.
UserAgent == "<base>"
Endpoint == "<endpoint>"

\* A pattern that the empty key matches too (mutant).
MatchString_AcceptEmpty(key) ==
  \/ key = <<>>
  \/ \E s \in 1..(Len(key) - KeyLen + 1) :
       \A j \in s..(s + KeyLen - 1) : key[j] \in LowerAlnum

\* validApiKey.MatchString: the pattern is not anchored, so it matches when
\* SOME window of KeyLen consecutive characters lies in the class.
MatchString(key) ==
  \E s \in 1..(Len(key) - KeyLen + 1) :
    \A j \in s..(s + KeyLen - 1) : key[j] \in LowerAlnum

\* The option constructors.
APIKey(apiKey) == [opt |-> "APIKey", key |-> apiKey, name |-> "", version |-> ""]
Application(name, version) == [opt |-> "Application", key |-> <<>>, name |-> name, version |-> version]

Options == { APIKey(k) : k \in Keys } \cup { Application(n, v) : n \in AppNames, v \in AppVersions }
OptionLists == UNION { [1..n -> Options] : n \in 0..MaxOpts }

\* An APIKey option that never turns an invalid client valid again (mutant).
ApplyOption_StickyInvalid(c, o) ==
  IF o.opt = "APIKey"
  THEN [c EXCEPT !.apiKey = o.key, !.apiKeyValid = c.apiKeyValid /\ MatchString(o.key)]
  ELSE [c EXCEPT !.applicationName = o.name, !.applicationVersion = o.version]

\* option(client): what the closure returned by APIKey / Application does.
ApplyOption(c, o) ==
  IF o.opt = "APIKey"
  THEN [c EXCEPT !.apiKey = o.key, !.apiKeyValid = MatchString(o.key)]
  ELSE [c EXCEPT !.applicationName = o.name, !.applicationVersion = o.version]

RECURSIVE ApplyOptions(_, _)
ApplyOptions(c, opts) ==
  IF opts = <<>> THEN c ELSE ApplyOptions(ApplyOption(c, Head(opts)), Tail(opts))

\* UserAgent() using the version whenever it is set (mutant).
ComputeUserAgent_VersionAlone(c) ==
  IF c.applicationVersion # ""
  THEN <<c.applicationName, "/", c.applicationVersion, " ", UserAgent>>
  ELSE IF c.applicationName # ""
  THEN <<c.applicationName, " ", UserAgent>>
  ELSE <<UserAgent>>

\* Client.UserAgent(): the user agent as the sequence of its parts.
ComputeUserAgent(c) ==
  IF c.applicationName # "" /\ c.applicationVersion # ""
  THEN <<c.applicationName, "/", c.applicationVersion, " ", UserAgent>>
  ELSE IF c.applicationName # "" /\ c.applicationVersion = ""
  THEN <<c.applicationName, " ", UserAgent>>
  ELSE <<UserAgent>>

\* The struct literal NewClient starts from.
ClientLiteral ==
  [endpoint |-> Endpoint, apiKey |-> <<>>, apiKeyValid |-> TRUE,
   applicationName |-> "", applicationVersion |-> "", userAgent |-> <<>>]

NewClient(options) ==
  LET c1 == ApplyOptions(ClientLiteral, options)
  IN [c1 EXCEPT !.userAgent = ComputeUserAgent(c1)]

\* ------------------------------------------------------------- operations
ListOps == {"ListRecords", "ListForward", "ListGlue", "ListDomains"}
DirectOps == {"GetDomain"}
CreateOps == {"CreateRecord", "CreateForward", "CreateGlue"}
ExistOps == {"UpdateRecord", "DeleteRecord", "EditDomain", "DeleteForward", "UpdateGlue", "DeleteGlue"}
GuardedOps == CreateOps \cup ExistOps
Ops == ListOps \cup DirectOps \cup GuardedOps

\* The list function an operation calls first (itself for a list operation).
ListOf(o) ==
  CASE o \in {"ListRecords", "CreateRecord", "UpdateRecord", "DeleteRecord"} -> "ListRecords"
    [] o \in {"ListForward", "CreateForward", "DeleteForward"} -> "ListForward"
    [] o \in {"ListGlue", "CreateGlue", "UpdateGlue", "DeleteGlue"} -> "ListGlue"
    [] OTHER -> "ListDomains"

\* const method of each function.
Method(o) ==
  CASE o = "ListRecords" -> "list-records"
    [] o = "CreateRecord" -> "add-record"
    [] o = "UpdateRecord" -> "edit-record"
    [] o = "DeleteRecord" -> "remove-record"
    [] o = "ListForward" -> "list-forwards"
    [] o = "CreateForward" -> "add-forward"
    [] o = "DeleteForward" -> "remove-forward"
    [] o = "ListGlue" -> "list-glue"
    [] o = "CreateGlue" -> "add-glue"
    [] o = "UpdateGlue" -> "edit-glue"
    [] o = "DeleteGlue" -> "remove-glue"
    [] o = "GetDomain" -> "get-domain"
    [] o = "ListDomains" -> "list-domains"
    [] OTHER -> "edit-domain"

\* Parameters: one record shape for all operations, "" for a field the
\* operation's parameter type does not have.
NoParams == [domain |-> "", id |-> "", name |-> "", attrs |-> "", from |-> "", to |-> ""]
Prm(d, i, n, a, f, t) == [domain |-> d, id |-> i, name |-> n, attrs |-> a, from |-> f, to |-> t]

ParamsOf(o) ==
  CASE o \in {"ListRecords", "ListForward", "ListGlue", "GetDomain"} ->
         { Prm(d, "", "", "", "", "") : d \in Domains }
    [] o = "ListDomains" -> { NoParams }
    [] o = "CreateRecord" -> { Prm(d, "", n, a, "", "") : d \in Domains, n \in Names, a \in Attrs }
    [] o = "UpdateRecord" -> { Prm(d, i, n, a, "", "") : d \in Domains, i \in IDs, n \in Names, a \in Attrs }
    [] o = "DeleteRecord" -> { Prm(d, i, "", "", "", "") : d \in Domains, i \in IDs }
    [] o \in {"CreateForward", "DeleteForward"} -> { Prm(d, "", "", "", f, t) : d \in Domains, f \in Addrs, t \in Addrs }
    [] o \in {"CreateGlue", "UpdateGlue"} -> { Prm(d, "", n, a, "", "") : d \in Domains, n \in Names, a \in Attrs }
    [] o = "DeleteGlue" -> { Prm(d, "", n, "", "", "") : d \in Domains, n \in Names }
    [] OTHER -> { Prm(d, "", "", a, "", "") : d \in Domains, a \in Attrs }

\* Elements of the listed collections, one record shape for all resources.
Elem(i, n, a, f, t) == [id |-> i, name |-> n, attrs |-> a, from |-> f, to |-> t]

ElemsOf(l) ==
  CASE l = "ListRecords" -> { Elem(i, n, a, "", "") : i \in IDs, n \in Names, a \in Attrs }
    [] l = "ListForward" -> { Elem("", "", "", f, t) : f \in Addrs, t \in Addrs }
    [] l = "ListGlue" -> { Elem("", n, a, "", "") : n \in Names, a \in Attrs }
    [] OTHER -> { Elem("", d, a, "", "") : d \in Domains, a \in Attrs }

ListsOf(l) == UNION { [1..n -> ElemsOf(l)] : n \in 0..MaxList }

\* ------------------------------------------------------- values and errors
\* Go values handed back to the caller: nil, a slice of elements, or a
\* pointer to a response struct (data: its attribute values, "" for zero).
NilVal == [k |-> "nil", items |-> <<>>, data |-> ""]
SliceVal(items) == [k |-> "slice", items |-> items, data |-> ""]
StructVal(items, data) == [k |-> "struct", items |-> items, data |-> data]

\* Errors: the kind of message, its %s arguments in order, its %d argument.
NoErr == [kind |-> "nil", a |-> "", b |-> "", code |-> 0]
Err(kind, a, b, code) == [kind |-> kind, a |-> a, b |-> b, code |-> code]

\* Whether the response struct of an operation declares any field: the
\* delete responses and the glue create/update responses are empty structs.
ResponseHasFields(o) == o \in {"CreateRecord", "UpdateRecord", "CreateForward", "GetDomain", "EditDomain"}

\* ------------------------------------------------------------- NewRequest
NoAuth == [set |-> FALSE, scheme |-> "", key |-> <<>>]

\* NewRequest without the validity check (mutant).
NewRequest_NoValidityCheck(c, rctx, method, body) ==
  [err |-> NoErr,
   req |-> [method |-> method, params |-> body, ua |-> c.userAgent,
            auth |-> IF c.apiKey # <<>>
                     THEN [set |-> TRUE, scheme |-> "Njalla", key |-> c.apiKey]
                     ELSE NoAuth,
            json |-> TRUE, ctx |-> rctx]]

\* NewRequest setting Authorization without testing the key for "" (mutant).
NewRequest_AuthAlways(c, rctx, method, body) ==
  IF ~c.apiKeyValid
  THEN [err |-> Err("invalid API key", "", "", 0),
        req |-> [method |-> "", params |-> NoParams, ua |-> <<>>, auth |-> NoAuth, json |-> FALSE, ctx |-> ""]]
  ELSE [err |-> NoErr,
        req |-> [method |-> method, params |-> body, ua |-> c.userAgent,
                 auth |-> [set |-> TRUE, scheme |-> "Njalla", key |-> c.apiKey],
                 json |-> TRUE, ctx |-> rctx]]

\* Client.NewRequest: the request, or the error it returns. body is never
\* nil in the sub-clients, so Accept and Content-Type are always set.
NewRequest(c, rctx, method, body) ==
  IF ~c.apiKeyValid
  THEN [err |-> Err("invalid API key", "", "", 0),
        req |-> [method |-> "", params |-> NoParams, ua |-> <<>>, auth |-> NoAuth, json |-> FALSE, ctx |-> ""]]
  ELSE [err |-> NoErr,
        req |-> [method |-> method, params |-> body, ua |-> c.userAgent,
                 auth |-> IF c.apiKey # <<>>
                          THEN [set |-> TRUE, scheme |-> "Njalla", key |-> c.apiKey]
                          ELSE NoAuth,
                 json |-> TRUE, ctx |-> rctx]]

\* -------------------------------------------------------------- responses
\* What httpClient.Do yields: a transport error, or a status and a body. The
\* body is not JSON for the wrapper ("garbage"), the JSON null, or an object;
\* an object has no result key ("absent") or a result that is null, a value
\* no struct decodes from ("scalar"), or an object, which may carry the
\* collection key and carries the attribute values data.
Resp(net, status, body, result, hasColl, coll, data) ==
  [net |-> net, status |-> status, body |-> body, result |-> result,
   hasColl |-> hasColl, coll |-> coll, data |-> data]

Statuses == {StatusOK} \cup OtherStatuses

FailedResponses ==
  { Resp("err", 0, "", "", FALSE, <<>>, "") }
  \cup { Resp("ok", s, b, "", FALSE, <<>>, "") : s \in Statuses, b \in {"garbage", "null"} }
  \cup { Resp("ok", s, "object", r, FALSE, <<>>, "") : s \in Statuses, r \in {"absent", "scalar"} }

ListResponses(l) ==
  FailedResponses
  \cup { Resp("ok", s, "object", "null", FALSE, <<>>, "") : s \in Statuses }
  \cup { Resp("ok", s, "object", "object", FALSE, <<>>, "") : s \in Statuses }
  \cup { Resp("ok", s, "object", "object", TRUE, coll, "") : s \in Statuses, coll \in ListsOf(l) }

FinalResponses ==
  FailedResponses
  \cup { Resp("ok", s, "object", "null", FALSE, <<>>, "") : s \in Statuses }
  \cup { Resp("ok", s, "object", "object", FALSE, <<>>, d) : s \in Statuses, d \in Data }

\* The part of a response the model keeps after it was handled.
Summary(r) ==
  [net |-> r.net, status |-> r.status, body |-> r.body, result |-> r.result,
   hasColl |-> r.hasColl, data |-> r.data]
NoResp == [net |-> "", status |-> 0, body |-> "", result |-> "", hasColl |-> FALSE, data |-> ""]

\* An Unmarshal that rejects an object without the collection key (mutant).
Unmarshal_RequireCollection(r, hasFields) ==
  CASE r.result = "null" -> [ok |-> TRUE, v |-> StructVal(<<>>, "")]
    [] r.result = "object" /\ (r.hasColl \/ r.data # "") ->
         [ok |-> TRUE, v |-> StructVal(IF r.hasColl THEN r.coll ELSE <<>>,
                                       IF hasFields THEN r.data ELSE "")]
    [] OTHER -> [ok |-> FALSE, v |-> NilVal]

\* json.Unmarshal(wrapper.Result, v): null leaves v at its zero value, an
\* object fills the declared fields, anything else is an error.
Unmarshal(r, hasFields) ==
  CASE r.result = "null" -> [ok |-> TRUE, v |-> StructVal(<<>>, "")]
    [] r.result = "object" ->
         [ok |-> TRUE, v |-> StructVal(IF r.hasColl THEN r.coll ELSE <<>>,
                                       IF hasFields THEN r.data ELSE "")]
    [] OTHER -> [ok |-> FALSE, v |-> NilVal]

\* -------------------------------------------------------------- DoRequest
\* DoRequest returning the status error before it decodes the body (mutant).
DoRequest_StatusFirst(r, vNonNil, hasFields) ==
  IF r.net = "err" THEN [val |-> NilVal, err |-> Err("transport", "", "", 0)]
  ELSE IF r.status # StatusOK THEN [val |-> NilVal, err |-> Err("status", "", "", r.status)]
  ELSE IF r.body = "garbage" THEN [val |-> NilVal, err |-> Err("failed to decode response", "", "", 0)]
  ELSE IF r.body = "null" \/ r.result = "absent"
  THEN [val |-> NilVal, err |-> Err("missing result field", "", "", 0)]
  ELSE IF vNonNil
  THEN LET u == Unmarshal(r, hasFields)
       IN IF ~u.ok THEN [val |-> NilVal, err |-> Err("failed to unmarshal result", "", "", 0)]
          ELSE [val |-> u.v, err |-> NoErr]
  ELSE [val |-> NilVal, err |-> NoErr]

\* DoRequest handing back v along with the error of a failed unmarshal
\* (mutant).
DoRequest_PartialOnError(r, vNonNil, hasFields) ==
  IF r.net = "err" THEN [val |-> NilVal, err |-> Err("transport", "", "", 0)]
  ELSE IF r.body = "garbage" THEN [val |-> NilVal, err |-> Err("failed to decode response", "", "", 0)]
  ELSE IF r.body = "null" \/ r.result = "absent"
  THEN [val |-> NilVal, err |-> Err("missing result field", "", "", 0)]
  ELSE IF vNonNil
  THEN LET u == Unmarshal(r, hasFields)
       IN IF ~u.ok THEN [val |-> StructVal(<<>>, ""), err |-> Err("failed to unmarshal result", "", "", 0)]
          ELSE [val |-> u.v, err |-> NoErr]
  ELSE [val |-> NilVal, err |-> IF r.status # StatusOK THEN Err("status", "", "", r.status) ELSE NoErr]

\* DoRequest returning nil for a null result (mutant).
DoRequest_NilOnNull(r, vNonNil, hasFields) ==
  IF r.net = "err" THEN [val |-> NilVal, err |-> Err("transport", "", "", 0)]
  ELSE IF r.body = "garbage" THEN [val |-> NilVal, err |-> Err("failed to decode response", "", "", 0)]
  ELSE IF r.body = "null" \/ r.result = "absent"
  THEN [val |-> NilVal, err |-> Err("missing result field", "", "", 0)]
  ELSE IF vNonNil
  THEN LET u == Unmarshal(r, hasFields)
       IN IF ~u.ok THEN [val |-> NilVal, err |-> Err("failed to unmarshal result", "", "", 0)]
          ELSE IF r.result = "null" THEN [val |-> NilVal, err |-> NoErr]
          ELSE [val |-> u.v, err |-> NoErr]
  ELSE [val |-> NilVal, err |-> IF r.status # StatusOK THEN Err("status", "", "", r.status) ELSE NoErr]

\* Client.DoRequest on the outcome r of httpClient.Do; vNonNil: v != nil.
DoRequest(r, vNonNil, hasFields) ==
  IF r.net = "err" THEN [val |-> NilVal, err |-> Err("transport", "", "", 0)]
  ELSE LET err == IF r.status # StatusOK THEN Err("status", "", "", r.status) ELSE NoErr
       IN IF r.body = "garbage" THEN [val |-> NilVal, err |-> Err("failed to decode response", "", "", 0)]
          ELSE IF r.body = "null" \/ r.result = "absent"
          THEN [val |-> NilVal, err |-> Err("missing result field", "", "", 0)]
          ELSE IF vNonNil
          THEN LET u == Unmarshal(r, hasFields)
               IN IF ~u.ok THEN [val |-> NilVal, err |-> Err("failed to unmarshal result", "", "", 0)]
                  ELSE [val |-> u.v, err |-> NoErr]
          ELSE [val |-> NilVal, err |-> err]

\* ------------------------------------------------- the envelope, in bytes
\* A body as the sequence of its JSON tokens; " " is white space.
Scalars == {"1", "null", "true", "\"s\""}
KeyTokens == {"\"result\"", "\"a\""}

\* The JSON values of nesting depth at most d that a result may be.
RECURSIVE JSONValues(_)
JSONValues(d) ==
  IF d = 0 THEN { <<s>> : s \in Scalars }
  ELSE LET V == JSONValues(d - 1)
       IN V \cup { <<"[", "]">>, <<"{", "}">> }
            \cup { <<"[">> \o v \o <<"]">> : v \in V }
            \cup { <<"{", k, ":">> \o v \o <<"}">> : k \in KeyTokens, v \in V }
            \cup { <<"[">> \o v \o <<",", " ">> \o w \o <<"]">> :
                     v \in JSONValues(0), w \in JSONValues(0) }

Payloads == JSONValues(MaxDepth)

\* The server's envelope around a result.
Wrap(r) == <<"{", "\"result\"", ":", " ">> \o r \o <<"}">>

\* The decoder skipping white space from position i on.
RECURSIVE SkipSpace(_, _)
SkipSpace(b, i) == IF i <= Len(b) /\ b[i] = " " THEN SkipSpace(b, i + 1) ELSE i

\* A value scan that ends at the first closing bracket (mutant).
RECURSIVE ValueEnd_FirstClose(_, _, _)
ValueEnd_FirstClose(b, i, depth) ==
  IF i > Len(b) THEN 0
  ELSE IF depth = 0 /\ b[i] \notin {"[", "{"} THEN i
  ELSE IF b[i] \in {"]", "}"} THEN i
  ELSE ValueEnd_FirstClose(b, i + 1, depth + 1)

\* The position of the last token of the value that starts at i, found by
\* matching brackets; 0 when the body ends first.
RECURSIVE ValueEnd(_, _, _)
ValueEnd(b, i, depth) ==
  IF i > Len(b) THEN 0
  ELSE LET d == IF b[i] \in {"[", "{"} THEN depth + 1
                ELSE IF b[i] \in {"]", "}"} THEN depth - 1
                ELSE depth
       IN IF d <= 0 THEN i ELSE ValueEnd(b, i + 1, d)

\* The members of the envelope object from position i on: the value of the
\* key "result" is stored as it stands (json.RawMessage), other members are
\* skipped.
RECURSIVE DecodeMembers(_, _, _)
DecodeMembers(b, i, raw) ==
  LET k == SkipSpace(b, i)
  IN IF k > Len(b) THEN [ok |-> FALSE, raw |-> <<>>]
     ELSE IF b[k] = "}" THEN [ok |-> TRUE, raw |-> raw]
     ELSE LET c == SkipSpace(b, k + 1)
              v == SkipSpace(b, c + 1)
              e == ValueEnd(b, v, 0)
              n == SkipSpace(b, e + 1)
          IN IF c > Len(b) \/ b[c] # ":" \/ e = 0 \/ n > Len(b)
             THEN [ok |-> FALSE, raw |-> <<>>]
             ELSE LET raw2 == IF b[k] = "\"result\"" THEN SubSeq(b, v, e) ELSE raw
                  IN IF b[n] = "," THEN DecodeMembers(b, n + 1, raw2)
                     ELSE IF b[n] = "}" THEN [ok |-> TRUE, raw |-> raw2]
                     ELSE [ok |-> FALSE, raw |-> <<>>]

\* json.NewDecoder(resp.Body).Decode(&wrapper): the bytes of wrapper.Result.
DecodeWrapper(b) ==
  LET i == SkipSpace(b, 1)
  IN IF i > Len(b) THEN [ok |-> FALSE, raw |-> <<>>]
     ELSE IF b[i] = "null" THEN [ok |-> TRUE, raw |-> <<>>]
     ELSE IF b[i] # "{" THEN [ok |-> FALSE, raw |-> <<>>]
     ELSE DecodeMembers(b, i + 1, <<>>)

\* ------------------------------------------------------ existence guards
\* The scan of each guarded function over the listed collection.
\* CreateRecord comparing the whole record content (mutant).
CreateRecordGuard_FullContent(existingRecords, r) ==
  \E i \in 1..Len(existingRecords) :
    existingRecords[i].name = r.name /\ existingRecords[i].attrs = r.attrs

CreateRecordGuard(existingRecords, r) ==
  \E i \in 1..Len(existingRecords) : existingRecords[i].name = r.name

\* UpdateRecord accepting a listed record of the same name (mutant).
UpdateRecordGuard_ByName(existingRecords, r) ==
  \E i \in 1..Len(existingRecords) :
    existingRecords[i].id = r.id \/ existingRecords[i].name = r.name

UpdateRecordGuard(existingRecords, r) ==
  \E i \in 1..Len(existingRecords) : existingRecords[i].id = r.id

\* DeleteRecord going on whatever the list holds (mutant).
DeleteRecordGuard_Always(existingRecords, r) == TRUE

DeleteRecordGuard(existingRecords, r) ==
  \E i \in 1..Len(existingRecords) : existingRecords[i].id = r.id

\* CreateForward comparing From only (mutant).
CreateForwardGuard_FromOnly(existingForwards, forwardParams) ==
  \E i \in 1..Len(existingForwards) : existingForwards[i].from = forwardParams.from

CreateForwardGuard(existingForwards, forwardParams) ==
  \E i \in 1..Len(existingForwards) :
    existingForwards[i].to = forwardParams.to /\ existingForwards[i].from = forwardParams.from

DeleteForwardGuard(existingForwards, forwardParams) ==
  \E i \in 1..Len(existingForwards) :
    existingForwards[i].to = forwardParams.to /\ existingForwards[i].from = forwardParams.from

\* CreateGlue comparing the listed name with the domain (mutant).
CreateGlueGuard_WrongField(existingGlues, glueParams) ==
  \E i \in 1..Len(existingGlues) : existingGlues[i].name = glueParams.domain

CreateGlueGuard(existingGlues, glueParams) ==
  \E i \in 1..Len(existingGlues) : existingGlues[i].name = glueParams.name

UpdateGlueGuard(existingRecords, glueParams) ==
  \E i \in 1..Len(existingRecords) : existingRecords[i].name = glueParams.name

\* DeleteGlue setting exists for every listed element (mutant).
DeleteGlueGuard_AnyElement(existingRecords, glueParams) ==
  \E i \in 1..Len(existingRecords) : TRUE

DeleteGlueGuard(existingRecords, glueParams) ==
  \E i \in 1..Len(existingRecords) : existingRecords[i].name = glueParams.name

EditDomainGuard(existingDomains, domain) ==
  \E i \in 1..Len(existingDomains) : existingDomains[i].name = domain

\* Whether the scan of guarded operation o finds its element.
Found(o, existing, p) ==
  CASE o = "CreateRecord" -> CreateRecordGuard(existing, p)
    [] o = "UpdateRecord" -> UpdateRecordGuard(existing, p)
    [] o = "DeleteRecord" -> DeleteRecordGuard(existing, p)
    [] o = "CreateForward" -> CreateForwardGuard(existing, p)
    [] o = "DeleteForward" -> DeleteForwardGuard(existing, p)
    [] o = "CreateGlue" -> CreateGlueGuard(existing, p)
    [] o = "UpdateGlue" -> UpdateGlueGuard(existing, p)
    [] o = "DeleteGlue" -> DeleteGlueGuard(existing, p)
    [] OTHER -> EditDomainGuard(existing, p.domain)

\* The error a guarded operation returns when its scan stops it.
GuardError(o, p) ==
  CASE o = "CreateRecord" -> Err("already exists", p.name, "", 0)
    [] o = "CreateForward" -> Err("already exists", p.to, p.from, 0)
    [] o = "CreateGlue" -> Err("already exists", p.name, "", 0)
    [] o \in {"UpdateRecord", "DeleteRecord"} -> Err("does not exist", p.id, "", 0)
    [] o = "DeleteForward" -> Err("does not exist", p.to, p.from, 0)
    [] o \in {"UpdateGlue", "DeleteGlue"} -> Err("does not exist", p.name, "", 0)
    [] OTHER -> Err("does not exist", p.domain, "", 0)

\* The context the list call of an operation runs under: CreateRecord lists
\* under context.Background(), every other function under the caller's ctx.
ListCtx(o, callerCtx) == IF o = "CreateRecord" THEN "background" ELSE callerCtx

\* A list request that leaves the domain out (mutant).
ListBody_Unscoped(o, p) == NoParams

\* The body of the list request: the domain of the parameters, nothing for
\* list-domains.
ListBody(o, p) ==
  IF ListOf(o) = "ListDomains" THEN NoParams
  ELSE Prm(p.domain, "", "", "", "", "")

\* A mutating request that leaves the content fields out (mutant).
FinalBody_DropAttrs(o, p) == [p EXCEPT !.attrs = ""]

\* The body of the mutating (or get) request, built from the parameters.
FinalBody(o, p) == p

\* ------------------------------------------------------------------ state
VARIABLES
  client,   \* the Client struct built by NewClient
  pc,       \* "idle", "awaitList", "awaitFinal" or "done"
  op,       \* the public function being executed
  params,   \* its parameters
  ctx,      \* the caller's context: "live" or "cancelled"
  listed,   \* the collection the list call returned (ok: it returned one)
  reqs,     \* the requests NewRequest produced, in order
  wire,     \* the requests that went out on the network, in order
  resp,     \* the last response handled by DoRequest
  nresp,    \* how many responses DoRequest handled
  ret,      \* what the function returned: value and error
  dres,     \* what the last call of DoRequest returned: value and error
  env,      \* one response body on its way through the envelope decoding
  actors,   \* the calls of two concurrent callers, each with its own locals
  store,    \* the glue and the records the server holds for their domain
  built,    \* NewClient at work: its option list and how far it has got
  direct    \* one call of DoRequest on its own: its inputs and what it returned

vars == <<client, pc, op, params, ctx, listed, reqs, wire, resp, nresp, ret, dres, env, actors, store, built, direct>>

NoList == [ok |-> FALSE, items |-> <<>>]
NoRet == [val |-> NilVal, err |-> NoErr]

\* The concurrent callers, and a caller with no call under way.
Actors == {"A", "B"}
IdleActor ==
  [pc |-> "idle", op |-> "", params |-> NoParams, listed |-> NoList,
   sent |-> <<>>, ret |-> NoRet]
NoStore == [glue |-> {}, records |-> {}]

\* No construction and no separate DoRequest call under way.
NoBuilt == [pc |-> "off", options |-> <<>>, n |-> 0]
NoDirect ==
  [pc |-> "off", r |-> Resp("", 0, "", "", FALSE, <<>>, ""), v |-> FALSE,
   hasFields |-> FALSE, out |-> NoRet]

\* No body under way.
NoEnv == [pc |-> "off", payload |-> <<>>, body |-> <<>>, raw |-> <<>>, handed |-> <<>>]

Init ==
  /\ \E options \in OptionLists : client = NewClient(options)
  /\ env = NoEnv
  /\ actors = [a \in Actors |-> IdleActor]
  /\ store = NoStore
  /\ built = NoBuilt
  /\ direct = NoDirect
  /\ pc = "idle"
  /\ op = ""
  /\ params = NoParams
  /\ ctx = "live"
  /\ listed = NoList
  /\ reqs = <<>>
  /\ wire = <<>>
  /\ resp = NoResp
  /\ nresp = 0
  /\ ret = NoRet
  /\ dres = NoRet

\* NewRequest followed by the call of DoRequest up to httpClient.Do: the
\* request is built, and goes out unless its context is already cancelled.
Issue(rctx, method, body, waitPc) ==
  LET n == NewRequest(client, rctx, method, body)
  IN IF n.err # NoErr
     THEN /\ pc' = "done"
          /\ ret' = [val |-> NilVal, err |-> n.err]
          /\ UNCHANGED <<reqs, wire>>
     ELSE /\ reqs' = Append(reqs, n.req)
          /\ IF rctx = "cancelled"
             THEN /\ pc' = "done"
                  /\ ret' = [val |-> NilVal, err |-> Err("transport", "", "", 0)]
                  /\ UNCHANGED wire
             ELSE /\ pc' = waitPc
                  /\ wire' = Append(wire, n.req)
                  /\ UNCHANGED ret

\* A guarded function that goes to its mutating call without listing (mutant).
Call_NoList(o, p, c) ==
  /\ pc = "idle"
  /\ op' = o
  /\ params' = p
  /\ ctx' = c
  /\ IF o \in DirectOps \cup GuardedOps
     THEN Issue(c, Method(o), FinalBody(o, p), "awaitFinal")
     ELSE Issue(ListCtx(o, c), Method(ListOf(o)), ListBody(o, p), "awaitList")
  /\ UNCHANGED <<client, listed, resp, nresp, dres>>

\* A caller invokes public function o: it runs up to its first round trip.
Call(o, p, c) ==
  /\ pc = "idle"
  /\ op' = o
  /\ params' = p
  /\ ctx' = c
  /\ IF o \in DirectOps
     THEN Issue(c, Method(o), FinalBody(o, p), "awaitFinal")
     ELSE Issue(ListCtx(o, c), Method(ListOf(o)), ListBody(o, p), "awaitList")
  /\ UNCHANGED <<client, listed, resp, nresp, dres>>

\* A guarded function that drops the error of its list call and goes on with
\* an empty collection (mutant).
RecvList_IgnoreErr(r) ==
  /\ pc = "awaitList"
  /\ LET d == DoRequest(r, TRUE, FALSE)
     IN /\ resp' = Summary(r)
        /\ dres' = d
        /\ nresp' = nresp + 1
        /\ IF op \in ListOps
           THEN /\ pc' = "done"
                /\ ret' = IF d.err # NoErr THEN [val |-> NilVal, err |-> d.err]
                          ELSE [val |-> SliceVal(d.val.items), err |-> NoErr]
                /\ UNCHANGED <<listed, reqs, wire>>
           ELSE /\ listed' = [ok |-> d.err = NoErr, items |-> d.val.items]
                /\ IF (op \in CreateOps) = Found(op, d.val.items, params)
                   THEN /\ pc' = "done"
                        /\ ret' = [val |-> NilVal, err |-> GuardError(op, params)]
                        /\ UNCHANGED <<reqs, wire>>
                   ELSE Issue(ctx, Method(op), FinalBody(op, params), "awaitFinal")
  /\ UNCHANGED <<client, op, params, ctx>>

\* The list round trip ends: DoRequest handles the outcome, the list function
\* returns, and a guarded function scans and goes on to its mutating call.
RecvList(r) ==
  /\ pc = "awaitList"
  /\ LET d == DoRequest(r, TRUE, FALSE)
     IN /\ resp' = Summary(r)
        /\ dres' = d
        /\ nresp' = nresp + 1
        /\ IF d.err # NoErr
           THEN /\ pc' = "done"
                /\ ret' = [val |-> NilVal, err |-> d.err]
                /\ UNCHANGED <<listed, reqs, wire>>
           ELSE IF op \in ListOps
           THEN /\ pc' = "done"
                /\ ret' = [val |-> SliceVal(d.val.items), err |-> NoErr]
                /\ UNCHANGED <<listed, reqs, wire>>
           ELSE /\ listed' = [ok |-> TRUE, items |-> d.val.items]
                /\ IF (op \in CreateOps) = Found(op, d.val.items, params)
                   THEN /\ pc' = "done"
                        /\ ret' = [val |-> NilVal, err |-> GuardError(op, params)]
                        /\ UNCHANGED <<reqs, wire>>
                   ELSE Issue(ctx, Method(op), FinalBody(op, params), "awaitFinal")
  /\ UNCHANGED <<client, op, params, ctx>>

\* The mutating (or get) round trip ends and the function returns.
RecvFinal(r) ==
  /\ pc = "awaitFinal"
  /\ LET d == DoRequest(r, TRUE, ResponseHasFields(op))
     IN /\ resp' = Summary(r)
        /\ dres' = d
        /\ nresp' = nresp + 1
        /\ pc' = "done"
        /\ ret' = IF d.err # NoErr THEN [val |-> NilVal, err |-> d.err]
                  ELSE [val |-> d.val, err |-> NoErr]
  /\ UNCHANGED <<client, op, params, ctx, listed, reqs, wire>>

\* The caller's context is cancelled or expires while the list round trip is
\* out, so that the next request finds it cancelled. (A cancellation during
\* the last round trip of a call shows as that round trip's transport error.)
Cancel ==
  /\ pc = "awaitList"
  /\ ctx = "live"
  /\ ctx' = "cancelled"
  /\ UNCHANGED <<client, pc, op, params, listed, reqs, wire, resp, nresp, ret, dres, env, actors, store, built, direct>>

\* The caller has its result; the locals of the call are gone.
Return ==
  /\ pc = "done"
  /\ pc' = "idle"
  /\ op' = ""
  /\ params' = NoParams
  /\ ctx' = "live"
  /\ listed' = NoList
  /\ reqs' = <<>>
  /\ wire' = <<>>
  /\ resp' = NoResp
  /\ nresp' = 0
  /\ ret' = NoRet
  /\ dres' = NoRet
  /\ UNCHANGED <<client, env, actors, store, built, direct>>

\* UserAgent() prefixing the user agent it finds (mutant).
CallUserAgent_Prefix ==
  /\ Len(client.userAgent) < 6
  /\ client' = [client EXCEPT !.userAgent =
                  IF client.applicationName # ""
                  THEN <<client.applicationName, " ">> \o client.userAgent
                  ELSE <<UserAgent>>]
  /\ UNCHANGED <<pc, op, params, ctx, listed, reqs, wire, resp, nresp, ret, dres, env, actors, store, built, direct>>

\* The public UserAgent() called again on the constructed client, at any
\* time: it assigns userAgent from applicationName and applicationVersion.
CallUserAgent ==
  /\ client' = [client EXCEPT !.userAgent = ComputeUserAgent(client)]
  /\ UNCHANGED <<pc, op, params, ctx, listed, reqs, wire, resp, nresp, ret, dres, env, actors, store, built, direct>>

\* Any call a caller can make, with a context that is live or already
\* cancelled at call time.
Invoke ==
  /\ pc = "idle"
  /\ \E o \in Ops : \E p \in ParamsOf(o) : \E c \in {"live", "cancelled"} : Call(o, p, c)
  /\ UNCHANGED <<env, actors, store, built, direct>>

\* Any outcome of the list round trip that is out.
ListRoundTrip ==
  /\ pc = "awaitList"
  /\ \E r \in ListResponses(ListOf(op)) : RecvList(r)
  /\ UNCHANGED <<env, actors, store, built, direct>>

\* Any outcome of the mutating (or get) round trip that is out.
FinalRoundTrip ==
  /\ pc = "awaitFinal"
  /\ \E r \in FinalResponses : RecvFinal(r)
  /\ UNCHANGED <<env, actors, store, built, direct>>

Next ==
  \/ Invoke
  \/ ListRoundTrip
  \/ FinalRoundTrip
  \/ Cancel
  \/ Return
  \/ CallUserAgent

Spec == Init /\ [][Next]_vars

\* ------------------------------------------- the envelope decoding alone
\* One response body taken through DoRequest's decoding, token by token,
\* with no call under way.
callVars == <<client, pc, op, params, ctx, listed, reqs, wire, resp, nresp, ret, dres>>

InitEnvelope ==
  /\ client = NewClient(<<>>)
  /\ pc = "idle" /\ op = "" /\ params = NoParams /\ ctx = "live"
  /\ listed = NoList /\ reqs = <<>> /\ wire = <<>>
  /\ resp = NoResp /\ nresp = 0 /\ ret = NoRet /\ dres = NoRet
  /\ actors = [a \in Actors |-> IdleActor]
  /\ store = NoStore
  /\ built = NoBuilt
  /\ direct = NoDirect
  /\ \E r \in Payloads : env = [NoEnv EXCEPT !.pc = "start", !.payload = r]

\* The server answers with the envelope around its result.
ServerWrap ==
  /\ env.pc = "start"
  /\ env' = [env EXCEPT !.pc = "wrapped", !.body = Wrap(env.payload)]
  /\ UNCHANGED <<callVars, actors, store, built, direct>>

\* DoRequest decodes the body into the wrapper.
DecodeEnvelope ==
  /\ env.pc = "wrapped"
  /\ LET w == DecodeWrapper(env.body)
     IN env' = [env EXCEPT !.pc = IF w.ok THEN "decoded" ELSE "failed", !.raw = w.raw]
  /\ UNCHANGED <<callVars, actors, store, built, direct>>

\* DoRequest hands wrapper.Result to json.Unmarshal unless it is empty.
UnmarshalResult ==
  /\ env.pc = "decoded"
  /\ env' = IF Len(env.raw) = 0 THEN [env EXCEPT !.pc = "missing"]
            ELSE [env EXCEPT !.pc = "handed", !.handed = env.raw]
  /\ UNCHANGED <<callVars, actors, store, built, direct>>

NextEnvelope ==
  \/ ServerWrap
  \/ DecodeEnvelope
  \/ UnmarshalResult

SpecEnvelope == InitEnvelope /\ [][NextEnvelope]_vars

\* ------------------------------------------------ NewClient step by step
\* NewClient on an option list: the options are applied one after the other
\* to the client, then UserAgent() is called and the client is handed out.
idleVars == <<pc, op, params, ctx, listed, reqs, wire, resp, nresp, ret, dres>>

InitOptions ==
  /\ client = ClientLiteral
  /\ pc = "idle" /\ op = "" /\ params = NoParams /\ ctx = "live"
  /\ listed = NoList /\ reqs = <<>> /\ wire = <<>>
  /\ resp = NoResp /\ nresp = 0 /\ ret = NoRet /\ dres = NoRet
  /\ env = NoEnv
  /\ actors = [a \in Actors |-> IdleActor]
  /\ store = NoStore
  /\ direct = NoDirect
  /\ \E options \in OptionLists : built = [pc |-> "options", options |-> options, n |-> 0]

\* One turn of the option loop: option(client).
ApplyNextOption ==
  /\ built.pc = "options"
  /\ built.n < Len(built.options)
  /\ client' = ApplyOption(client, built.options[built.n + 1])
  /\ built' = [built EXCEPT !.n = @ + 1]
  /\ UNCHANGED <<idleVars, env, actors, store, direct>>

\* After the loop: client.UserAgent(), the sub-clients, return client.
FinishClient ==
  /\ built.pc = "options"
  /\ built.n = Len(built.options)
  /\ client' = [client EXCEPT !.userAgent = ComputeUserAgent(client)]
  /\ built' = [built EXCEPT !.pc = "ready"]
  /\ UNCHANGED <<idleVars, env, actors, store, direct>>

NextOptions ==
  \/ ApplyNextOption
  \/ FinishClient

SpecOptions == InitOptions /\ [][NextOptions]_vars

\* -------------------------------------------------- DoRequest on its own
\* One call of the public DoRequest, with v a typed pointer (as every
\* sub-client passes it) or nil, on any outcome of the round trip.
InitDoRequest ==
  /\ client = NewClient(<<>>)
  /\ pc = "idle" /\ op = "" /\ params = NoParams /\ ctx = "live"
  /\ listed = NoList /\ reqs = <<>> /\ wire = <<>>
  /\ resp = NoResp /\ nresp = 0 /\ ret = NoRet /\ dres = NoRet
  /\ env = NoEnv
  /\ actors = [a \in Actors |-> IdleActor]
  /\ store = NoStore
  /\ built = NoBuilt
  /\ \E v \in BOOLEAN : \E h \in BOOLEAN :
       direct = [NoDirect EXCEPT !.pc = "called", !.v = v, !.hasFields = h]

\* c.httpClient.Do(r) comes back with a response or an error.
DirectRoundTrip ==
  /\ direct.pc = "called"
  /\ \E r \in FinalResponses \cup UNION { ListResponses(l) : l \in ListOps } :
       direct' = [direct EXCEPT !.pc = "answered", !.r = r]
  /\ UNCHANGED <<callVars, env, actors, store, built>>

\* The rest of DoRequest: status, envelope, result, return.
DirectReturn ==
  /\ direct.pc = "answered"
  /\ direct' = [direct EXCEPT !.pc = "returned",
                              !.out = DoRequest(direct.r, direct.v, direct.hasFields)]
  /\ UNCHANGED <<callVars, env, actors, store, built>>

NextDoRequest ==
  \/ DirectRoundTrip
  \/ DirectReturn

SpecDoRequest == InitDoRequest /\ [][NextDoRequest]_vars

\* --------------------------------------------- two callers on one domain
\* Two callers run guarded glue and record functions on the same domain of
\* one server; each round trip is one step, the server answers 200.
RaceDomain == "x.com"
RaceOps == {"CreateGlue", "DeleteGlue", "DeleteRecord"}
RaceParams(o) ==
  { p \in ParamsOf(o) : p.domain = RaceDomain /\ p.name \in {"", "www"} /\ p.id \in {"", "1"} }

RaceGlue == { Elem("", "www", a, "", "") : a \in Attrs }
RaceRecords == { Elem("1", "www", "A", "", "") }

RECURSIVE SeqOf(_)
SeqOf(S) == IF S = {} THEN <<>> ELSE LET x == CHOOSE x \in S : TRUE IN <<x>> \o SeqOf(S \ {x})

\* The server's answer to a list request: what it holds at that moment.
ServerList(l, st) ==
  Resp("ok", StatusOK, "object", "object", TRUE,
       SeqOf(IF l = "ListGlue" THEN st.glue ELSE st.records), "")

\* The server carrying out a mutating request.
ServerApply(st, req) ==
  CASE req.method = "add-glue" ->
         [st EXCEPT !.glue = @ \cup {Elem("", req.params.name, req.params.attrs, "", "")}]
    [] req.method = "remove-glue" ->
         [st EXCEPT !.glue = { g \in @ : g.name # req.params.name }]
    [] req.method = "remove-record" ->
         [st EXCEPT !.records = { r \in @ : r.id # req.params.id }]
    [] OTHER -> st

InitRace ==
  /\ \E k \in Keys : client = NewClient(<<APIKey(k)>>)
  /\ pc = "idle" /\ op = "" /\ params = NoParams /\ ctx = "live"
  /\ listed = NoList /\ reqs = <<>> /\ wire = <<>>
  /\ resp = NoResp /\ nresp = 0 /\ ret = NoRet /\ dres = NoRet
  /\ env = NoEnv
  /\ built = NoBuilt
  /\ direct = NoDirect
  /\ actors = [a \in Actors |-> IdleActor]
  /\ \E g \in SUBSET RaceGlue : \E r \in SUBSET RaceRecords :
       store = [glue |-> g, records |-> r]

\* Caller a invokes guarded function o: it runs up to its list round trip.
RaceCall(a, o, p) ==
  /\ actors[a].pc = "idle"
  /\ LET n == NewRequest(client, ListCtx(o, "live"), Method(ListOf(o)), ListBody(o, p))
         me == [IdleActor EXCEPT !.op = o, !.params = p]
     IN actors' = [actors EXCEPT ![a] =
          IF n.err # NoErr
          THEN [me EXCEPT !.pc = "done", !.ret = [val |-> NilVal, err |-> n.err]]
          ELSE [me EXCEPT !.pc = "awaitList", !.sent = <<n.req>>]]
  /\ UNCHANGED <<callVars, env, store, built, direct>>

\* The list round trip of caller a: the server answers with what it holds,
\* the caller scans the answer and goes on to its mutating request.
RaceList(a) ==
  /\ actors[a].pc = "awaitList"
  /\ LET me == actors[a]
         d == DoRequest(ServerList(ListOf(me.op), store), TRUE, FALSE)
         n == NewRequest(client, "live", Method(me.op), FinalBody(me.op, me.params))
     IN actors' = [actors EXCEPT ![a] =
          IF d.err # NoErr
          THEN [me EXCEPT !.pc = "done", !.ret = [val |-> NilVal, err |-> d.err]]
          ELSE IF (me.op \in CreateOps) = Found(me.op, d.val.items, me.params)
          THEN [me EXCEPT !.pc = "done", !.listed = [ok |-> TRUE, items |-> d.val.items],
                          !.ret = [val |-> NilVal, err |-> GuardError(me.op, me.params)]]
          ELSE IF n.err # NoErr
          THEN [me EXCEPT !.pc = "done", !.listed = [ok |-> TRUE, items |-> d.val.items],
                          !.ret = [val |-> NilVal, err |-> n.err]]
          ELSE [me EXCEPT !.pc = "awaitFinal", !.listed = [ok |-> TRUE, items |-> d.val.items],
                          !.sent = Append(@, n.req)]]
  /\ UNCHANGED <<callVars, env, store, built, direct>>

\* The mutating round trip of caller a: the server carries the request out
\* and the function returns.
RaceFinal(a) ==
  /\ actors[a].pc = "awaitFinal"
  /\ LET me == actors[a]
         d == DoRequest(Resp("ok", StatusOK, "object", "object", FALSE, <<>>, ""),
                        TRUE, ResponseHasFields(me.op))
     IN /\ store' = ServerApply(store, me.sent[2])
        /\ actors' = [actors EXCEPT ![a] =
             [me EXCEPT !.pc = "done",
                        !.ret = IF d.err # NoErr THEN [val |-> NilVal, err |-> d.err]
                                ELSE [val |-> d.val, err |-> NoErr]]]
  /\ UNCHANGED <<callVars, env, built, direct>>

\* Caller a has its result.
RaceReturn(a) ==
  /\ actors[a].pc = "done"
  /\ actors' = [actors EXCEPT ![a] = IdleActor]
  /\ UNCHANGED <<callVars, env, store, built, direct>>

RaceInvoke == \E a \in Actors : \E o \in RaceOps : \E p \in RaceParams(o) : RaceCall(a, o, p)
RaceListRoundTrip == \E a \in Actors : RaceList(a)
RaceFinalRoundTrip == \E a \in Actors : RaceFinal(a)
RaceDone == \E a \in Actors : RaceReturn(a)

NextRace ==
  \/ RaceInvoke
  \/ RaceListRoundTrip
  \/ RaceFinalRoundTrip
  \/ RaceDone

SpecRace == InitRace /\ [][NextRace]_vars

\* ================================================================ claims
\* The method names of the method table, as the claims state them.
ClaimListMethods == {"list-records", "list-forwards", "list-glue", "list-domains"}
ClaimCreateMethods == {"add-record", "add-forward", "add-glue"}
ClaimChangeMethods == {"edit-record", "remove-record", "edit-domain", "remove-forward", "edit-glue", "remove-glue"}
ClaimMutatingMethods == ClaimCreateMethods \cup ClaimChangeMethods

\* The key equality of each guarded function, as the claims state it.
ClaimKeyMatch(o, e, p) ==
  CASE o = "CreateRecord" -> e.name = p.name
    [] o \in {"UpdateRecord", "DeleteRecord"} -> e.id = p.id
    [] o \in {"CreateForward", "DeleteForward"} -> e.from = p.from /\ e.to = p.to
    [] o \in {"CreateGlue", "UpdateGlue", "DeleteGlue"} -> e.name = p.name
    [] OTHER -> e.name = p.domain

ClaimListedMatch == \E i \in 1..Len(listed.items) : ClaimKeyMatch(op, listed.items[i], params)

NoMutatingRequest == \A i \in 1..Len(reqs) : reqs[i].method \notin ClaimMutatingMethods

\* C1: when the pre-list of a guarded create holds an element with the
\* create's natural key, the create returns the 'already exists' error with
\* no value, no mutating request is ever built, and the list is the only
\* round trip.
C1_CreateConflict ==
  (op \in {"CreateRecord", "CreateForward", "CreateGlue"} /\ listed.ok /\ ClaimListedMatch) =>
    /\ pc = "done"
    /\ ret.err.kind = "already exists"
    /\ ret.val = NilVal
    /\ NoMutatingRequest
    /\ Len(wire) = 1
    /\ wire[1].method \in ClaimListMethods

C1_Witness ==
  /\ op = "CreateGlue" /\ listed.ok /\ ClaimListedMatch
  /\ pc = "done" /\ ret.err.kind = "already exists" /\ Len(wire) = 1

\* C2: when the pre-list of a guarded update or delete holds no element with
\* the key, the function returns the 'does not exist' error with no value and
\* no mutating request is ever built.
C2_ChangeNotFound ==
  (op \in {"UpdateRecord", "DeleteRecord", "EditDomain", "DeleteForward", "UpdateGlue", "DeleteGlue"}
     /\ listed.ok /\ ~ClaimListedMatch) =>
    /\ pc = "done"
    /\ ret.err.kind = "does not exist"
    /\ ret.val = NilVal
    /\ NoMutatingRequest
    /\ Len(wire) = 1

C2_Witness ==
  /\ op = "DeleteGlue" /\ listed.ok /\ Len(listed.items) > 0 /\ ~ClaimListedMatch
  /\ pc = "done" /\ ret.err.kind = "does not exist" /\ Len(wire) = 1

\* C3: a function whose last response had a status other than 200 returns an
\* error, also when the body is a well-formed envelope with a decodable result.
C3_Non200IsError ==
  (pc = "done" /\ nresp > 0 /\ resp.net = "ok" /\ resp.status # 200) => ret.err # NoErr

\* C4: a response body that is an object without a result key makes the
\* function fail with the missing-result error and no value, whatever the status.
C4_MissingResult ==
  (nresp > 0 /\ resp.net = "ok" /\ resp.body = "object" /\ resp.result = "absent") =>
    /\ pc = "done"
    /\ ret.err.kind = "missing result field"
    /\ ret.val = NilVal

C4_Witness ==
  /\ nresp = 2 /\ resp.net = "ok" /\ resp.body = "object" /\ resp.result = "absent"
  /\ resp.status # 200 /\ ret.err.kind = "missing result field"

\* C5: with a key that failed the pattern the client exists all the same, and
\* every function called on it ends with the invalid-API-key error and no
\* value, without a request being built or sent and without a response.
C5_InvalidKeyNoTraffic ==
  ~client.apiKeyValid =>
    /\ reqs = <<>> /\ wire = <<>> /\ nresp = 0
    /\ pc \in {"idle", "done"}
    /\ (pc = "done" => ret.err.kind = "invalid API key" /\ ret.val = NilVal)

C5_Witness ==
  /\ ~client.apiKeyValid /\ client.apiKey # <<>>
  /\ op \in GuardedOps /\ pc = "done" /\ ret.err.kind = "invalid API key"

\* C6: a key passed to APIKey is marked valid exactly when it has 40
\* characters, all of them in a-z or 0-9, and a call made with any other key
\* ends with the invalid-API-key error.
ExactPattern(key) == Len(key) = 40 /\ \A j \in 1..Len(key) : key[j] \in LowerAlnum

C6_ExactPattern ==
  (client.apiKey # <<>> /\ pc # "idle") =>
    /\ client.apiKeyValid <=> ExactPattern(client.apiKey)
    /\ ~ExactPattern(client.apiKey) => (pc = "done" /\ ret.err.kind = "invalid API key")

\* C7: every request NewRequest produced carries Authorization: Njalla <key>
\* exactly when the configured key is non-empty and valid, none carries the
\* header for an empty or invalid key, and each carries the client's
\* User-Agent.
C7_AuthHeader ==
  \A i \in 1..Len(reqs) :
    /\ reqs[i].auth.set <=> (client.apiKey # <<>> /\ client.apiKeyValid)
    /\ reqs[i].auth.set => (reqs[i].auth.scheme = "Njalla" /\ reqs[i].auth.key = client.apiKey)
    /\ reqs[i].ua = client.userAgent /\ reqs[i].ua # <<>>

C7_Witness ==
  /\ Len(reqs) = 2 /\ reqs[2].auth.set /\ reqs[2].auth.key = client.apiKey

C7_WitnessNoKey ==
  /\ Len(reqs) = 2 /\ ~reqs[2].auth.set /\ client.apiKey = <<>>

\* C8: a function makes at most two round trips, one after the other; a list
\* or get function makes at most one; a guarded function builds and sends its
\* mutating request only as its second request, after the list request went
\* out, its response was handled and the collection was returned.
C8_TwoSequentialRoundTrips ==
  /\ Len(wire) <= 2
  /\ Len(reqs) <= 2
  /\ nresp <= Len(wire) /\ Len(wire) <= nresp + 1
  /\ (op \in {"ListRecords", "ListForward", "ListGlue", "ListDomains", "GetDomain"} => Len(wire) <= 1)
  /\ \A i \in 1..Len(reqs) :
       reqs[i].method \in ClaimMutatingMethods =>
         /\ i = 2
         /\ reqs[1].method \in ClaimListMethods
         /\ Len(wire) >= 1 /\ wire[1] = reqs[1]
         /\ nresp >= 1
         /\ listed.ok

C8_Witness ==
  /\ op \in GuardedOps /\ Len(wire) = 2 /\ nresp = 2 /\ pc = "done"
  /\ wire[1].method \in ClaimListMethods /\ wire[2].method \in ClaimMutatingMethods

\* The error a failed round trip ends with, "" when the round trip did not
\* fail: transport error, malformed envelope, missing result, decode error.
ClaimFailure(r) ==
  CASE r.net = "err" -> "transport"
    [] r.body = "garbage" -> "failed to decode response"
    [] r.body = "null" \/ r.result = "absent" -> "missing result field"
    [] r.result = "scalar" -> "failed to unmarshal result"
    [] OTHER -> ""

\* C9: no request is sent twice within a function, and a failed round trip
\* ends the function at once with that error and no value: no request is
\* built after it, so a failed list round trip is never followed by the
\* mutating call.
C9_NoRetry ==
  /\ \A i, j \in 1..Len(reqs) : reqs[i].method = reqs[j].method => i = j
  /\ (nresp > 0 /\ ClaimFailure(resp) # "") =>
       /\ pc = "done"
       /\ ret.err.kind = ClaimFailure(resp)
       /\ ret.val = NilVal
       /\ Len(reqs) = nresp
       /\ (nresp = 1 => NoMutatingRequest)

C9_Witness ==
  /\ op \in GuardedOps /\ nresp = 1 /\ ClaimFailure(resp) # "" /\ pc = "done"
  /\ Len(reqs) = 1 /\ ret.err.kind = ClaimFailure(resp)

C9_WitnessFinal ==
  /\ op \in GuardedOps /\ nresp = 2 /\ ClaimFailure(resp) = "transport" /\ pc = "done"

\* C10: CreateForward reports a conflict exactly when a listed forward equals
\* the parameters in both From and To, and otherwise builds add-forward;
\* DeleteForward builds remove-forward exactly when a listed forward equals
\* the parameters in both fields.
BothMatch == \E i \in 1..Len(listed.items) :
  listed.items[i].from = params.from /\ listed.items[i].to = params.to

C10_ForwardPair ==
  /\ (op = "CreateForward" /\ listed.ok) =>
       /\ BothMatch <=> (pc = "done" /\ nresp = 1 /\ ret.err.kind = "already exists")
       /\ ~BothMatch <=> (Len(reqs) = 2 /\ reqs[2].method = "add-forward")
  /\ (op = "DeleteForward" /\ listed.ok) =>
       /\ BothMatch <=> (Len(reqs) = 2 /\ reqs[2].method = "remove-forward")
       /\ ~BothMatch <=> (pc = "done" /\ nresp = 1 /\ ret.err.kind = "does not exist")

C10_Witness ==
  /\ op = "CreateForward" /\ listed.ok /\ ~BothMatch
  /\ \E i \in 1..Len(listed.items) :
       listed.items[i].from = params.from /\ listed.items[i].to # params.to
  /\ Len(wire) = 2 /\ wire[2].method = "add-forward"

\* C11: CreateRecord's duplicate check compares Name only: a listed record
\* with the create's Name rejects the create with the 'already exists' error
\* whatever its other fields, and with no such record add-record is built.
SameName == \E i \in 1..Len(listed.items) : listed.items[i].name = params.name

C11_RecordNameOnly ==
  (op = "CreateRecord" /\ listed.ok) =>
    /\ SameName <=> (pc = "done" /\ nresp = 1 /\ ret.err.kind = "already exists" /\ ret.err.a = params.name)
    /\ ~SameName <=> (Len(reqs) = 2 /\ reqs[2].method = "add-record")

C11_Witness ==
  /\ op = "CreateRecord" /\ listed.ok
  /\ \E i \in 1..Len(listed.items) :
       listed.items[i].name = params.name /\ listed.items[i].attrs # params.attrs
  /\ pc = "done" /\ ret.err.kind = "already exists" /\ Len(reqs) = 1

\* C12: UpdateRecord and DeleteRecord pass the guard exactly when a listed
\* record has the parameters' ID, UpdateGlue and DeleteGlue exactly when a
\* listed glue has the parameters' Name, EditDomain exactly when a listed
\* domain has the name of the domain parameter.
GuardPassed == Len(reqs) = 2 /\ reqs[2].method \in ClaimChangeMethods

C12_ChangeKeys ==
  /\ (op \in {"UpdateRecord", "DeleteRecord"} /\ listed.ok) =>
       (GuardPassed <=> \E i \in 1..Len(listed.items) : listed.items[i].id = params.id)
  /\ (op \in {"UpdateGlue", "DeleteGlue"} /\ listed.ok) =>
       (GuardPassed <=> \E i \in 1..Len(listed.items) : listed.items[i].name = params.name)
  /\ (op = "EditDomain" /\ listed.ok) =>
       (GuardPassed <=> \E i \in 1..Len(listed.items) : listed.items[i].name = params.domain)
  /\ (op \in ExistOps /\ listed.ok /\ ~GuardPassed) =>
       (pc = "done" /\ ret.err.kind = "does not exist")

C12_Witness ==
  /\ op = "UpdateRecord" /\ listed.ok
  /\ \E i \in 1..Len(listed.items) :
       listed.items[i].name = params.name /\ listed.items[i].id # params.id
  /\ ~GuardPassed /\ pc = "done" /\ ret.err.kind = "does not exist"

\* The method table: the list method and the mutating method of each guarded
\* function.
ClaimTable(o) ==
  CASE o = "CreateRecord" -> <<"list-records", "add-record">>
    [] o = "UpdateRecord" -> <<"list-records", "edit-record">>
    [] o = "DeleteRecord" -> <<"list-records", "remove-record">>
    [] o = "CreateForward" -> <<"list-forwards", "add-forward">>
    [] o = "DeleteForward" -> <<"list-forwards", "remove-forward">>
    [] o = "CreateGlue" -> <<"list-glue", "add-glue">>
    [] o = "UpdateGlue" -> <<"list-glue", "edit-glue">>
    [] o = "DeleteGlue" -> <<"list-glue", "remove-glue">>
    [] OTHER -> <<"list-domains", "edit-domain">>

C14_UserAgent ==
  LET n == client.applicationName
      v == client.applicationVersion
  IN /\ (n # "" /\ v # "") => client.userAgent = <<n, "/", v, " ", UserAgent>>
     /\ (n # "" /\ v = "") => client.userAgent = <<n, " ", UserAgent>>
     /\ n = "" => client.userAgent = <<UserAgent>>

C14_Witness ==
  /\ client.applicationName = "" /\ client.applicationVersion = "1.0"
  /\ client.userAgent = <<UserAgent>>

C14_WitnessBoth ==
  /\ client.applicationName = "Foo" /\ client.applicationVersion = "1.0"
  /\ client.userAgent = <<"Foo", "/", "1.0", " ", UserAgent>>

\* C15: a returned error excludes a returned value: whenever a public
\* function returns a non-nil error its value is nil, on each of the failure
\* paths, and DoRequest never returns a non-nil value with a non-nil error.
ClaimFailureKinds ==
  {"invalid API key", "transport", "status", "failed to decode response",
   "missing result field", "failed to unmarshal result", "already exists",
   "does not exist"}

C15_ValueXorError ==
  /\ ret.err # NoErr => (ret.val = NilVal /\ ret.err.kind \in ClaimFailureKinds)
  /\ dres.err # NoErr => dres.val = NilVal

C15_Witness ==
  /\ pc = "done" /\ nresp = 2
  /\ dres.err.kind = "failed to unmarshal result" /\ dres.val = NilVal
  /\ ret.err = dres.err /\ ret.val = NilVal

\* C19: a guarded function called with a context that is already cancelled
\* carries out neither round trip: nothing goes out on the network and the
\* call ends at its first request, for CreateRecord as for every other
\* guarded function.
C19_CallerCtx ==
  [][(pc = "idle" /\ op' \in GuardedOps /\ ctx' = "cancelled")
       => (wire' = <<>> /\ pc' = "done")]_vars

\* What holds in its place for the guarded functions other than CreateRecord.
C19_OtherGuarded ==
  [][(pc = "idle" /\ op' \in GuardedOps \ {"CreateRecord"} /\ ctx' = "cancelled")
       => (wire' = <<>> /\ pc' = "done")]_vars

\* C20: when the guard passes on the pre-list (create: no element with the
\* key; update, delete: an element with the key) the mutating request is
\* built exactly once, with the method of the table and the caller's
\* parameters field for field; and when its response is a 200 whose result
\* decodes, the function returns the typed result with a nil error.
ClaimGuardPasses == (op \in CreateOps) # ClaimListedMatch

MutatingRequests == { i \in 1..Len(reqs) : reqs[i].method \in ClaimMutatingMethods }

C20_GuardPassMutates ==
  /\ (op \in GuardedOps /\ listed.ok /\ ClaimGuardPasses) =>
       /\ MutatingRequests = {2}
       /\ reqs[2].method = ClaimTable(op)[2]
       /\ reqs[2].params = params
  /\ (op \in GuardedOps /\ pc = "done" /\ nresp = 2 /\ resp.net = "ok"
        /\ resp.status = StatusOK /\ resp.body = "object"
        /\ resp.result \in {"object", "null"}) =>
       /\ ret.err = NoErr
       /\ ret.val = StructVal(<<>>, IF ResponseHasFields(op) /\ resp.result = "object"
                                    THEN resp.data ELSE "")

C20_Witness ==
  /\ op = "CreateRecord" /\ listed.ok /\ ClaimGuardPasses
  /\ params.attrs # "" /\ reqs[2].params = params
  /\ pc = "done" /\ nresp = 2 /\ resp.status = StatusOK /\ resp.result = "object"
  /\ resp.data # "" /\ ret.err = NoErr /\ ret.val.data = resp.data

C20_WitnessChange ==
  /\ op = "DeleteForward" /\ listed.ok /\ ClaimGuardPasses
  /\ Len(wire) = 2 /\ wire[2].params = params
  /\ pc = "done" /\ resp.status = StatusOK /\ ret = [val |-> StructVal(<<>>, ""), err |-> NoErr]

\* C17: no step of any sub-client function, successful or failing, and no
\* further call of UserAgent() changes a configuration field of the Client
\* (apiKey, apiKeyValid, endpoint, applicationName, applicationVersion,
\* userAgent); every sub-client function works on that one Client.
C17_ClientImmutable == [][client' = client]_vars

C17_Witness ==
  /\ pc = "done" /\ op = "UpdateGlue" /\ nresp = 2 /\ ret.err = NoErr
  /\ client.apiKey # <<>> /\ client.apiKeyValid
  /\ client.applicationName # "" /\ client.applicationVersion # ""
  /\ client.userAgent = ComputeUserAgent(client)
  /\ \A i \in 1..Len(reqs) : reqs[i].ua = client.userAgent /\ reqs[i].auth.key = client.apiKey

C17_WitnessFailing ==
  /\ pc = "done" /\ op = "CreateForward" /\ ret.err.kind = "invalid API key"
  /\ ~client.apiKeyValid /\ client.userAgent = ComputeUserAgent(client)

\* C18: the envelope decoding hands the result on as it stands: for every
\* JSON value r, decoding the body {"result": r} succeeds and the bytes given
\* to the typed decoder are exactly those of r.
C18_EnvelopeRoundTrip ==
  /\ env.pc \notin {"failed", "missing"}
  /\ env.pc \in {"decoded", "handed"} => env.raw = env.payload
  /\ env.pc = "handed" => env.handed = env.payload

C18_Witness ==
  /\ env.pc = "handed"
  /\ env.payload = <<"{", "\"result\"", ":", "[", "null", "]", "}">>
  /\ env.body = <<"{", "\"result\"", ":", " ", "{", "\"result\"", ":", "[", "null", "]", "}", "}">>
  /\ env.handed = env.payload

C18_WitnessNull ==
  /\ env.pc = "handed" /\ env.payload = <<"null">> /\ env.handed = <<"null">>

\* C16: the guard is decided on the caller's own pre-list and nothing ties
\* it to the mutating call: a caller waiting on its mutating round trip has
\* built that request because its own snapshot passed the guard, whatever the
\* server holds by then. Two creates of one key can both be waiting on
\* add-glue (C16_Witness), and a delete can be waiting on remove-record for a
\* record another caller has removed since the list (C16_WitnessRemoved).
ActorGuardPasses(a) ==
  (actors[a].op \in CreateOps) #
    (\E i \in 1..Len(actors[a].listed.items) :
       ClaimKeyMatch(actors[a].op, actors[a].listed.items[i], actors[a].params))

C16_GuardOnSnapshot ==
  \A a \in Actors :
    /\ actors[a].pc = "awaitFinal" =>
         /\ actors[a].listed.ok /\ ActorGuardPasses(a)
         /\ Len(actors[a].sent) = 2
         /\ actors[a].sent[2].method = ClaimTable(actors[a].op)[2]
    /\ (actors[a].pc = "done" /\ actors[a].listed.ok /\ ~ActorGuardPasses(a)) =>
         (Len(actors[a].sent) = 1 /\ actors[a].ret.err.kind \in {"already exists", "does not exist"})

C16_Witness ==
  /\ \A a \in Actors :
       /\ actors[a].op = "CreateGlue" /\ actors[a].params.name = "www"
       /\ actors[a].pc = "awaitFinal"
       /\ actors[a].listed = [ok |-> TRUE, items |-> <<>>]
       /\ actors[a].sent[2].method = "add-glue"
  /\ store.glue = {}

C16_WitnessRemoved ==
  /\ actors["A"].op = "DeleteRecord" /\ actors["A"].pc = "awaitFinal"
  /\ actors["A"].sent[2].method = "remove-record"
  /\ \E i \in 1..Len(actors["A"].listed.items) : actors["A"].listed.items[i].id = actors["A"].params.id
  /\ \A r \in store.records : r.id # actors["A"].params.id
  /\ actors["B"].op = "DeleteRecord" /\ actors["B"].pc = "done" /\ actors["B"].ret.err = NoErr

\* C21: a response whose body is not a JSON object ends the call with the
\* 'failed to decode response' error whatever the HTTP status, a non-200
\* status included: the envelope error, not the status error, is returned.
C21_MalformedBody ==
  (pc = "done" /\ nresp >= 1 /\ resp.net = "ok" /\ resp.body # "object") =>
    (ret.val = NilVal /\ ret.err.kind = "failed to decode response")

\* What holds in its place for the bodies that are not JSON at all.
C21_NotJSON ==
  (pc = "done" /\ nresp >= 1 /\ resp.net = "ok" /\ resp.body = "garbage") =>
    (ret.val = NilVal /\ ret.err.kind = "failed to decode response")

\* The APIKey options of an option list, by position.
ClaimKeyOptions(options) == { i \in 1..Len(options) : options[i].opt = "APIKey" }

\* The clients built without any APIKey option, and those whose APIKey("")
\* is the key option in effect.
NoKeyClients ==
  { NewClient(options) : options \in { x \in OptionLists : ClaimKeyOptions(x) = {} } }
EmptyKeyClients ==
  { NewClient(options) :
      options \in { x \in OptionLists :
                     /\ ClaimKeyOptions(x) # {}
                     /\ \A i \in ClaimKeyOptions(x) :
                          (\A j \in ClaimKeyOptions(x) : j <= i) => x[i].key = <<>> } }

\* C22: a client built without any APIKey option counts as having a valid
\* credential: no call of it fails with the invalid-API-key error and its
\* requests carry no Authorization header; a client built with APIKey("")
\* is marked invalid and every call of it fails with that error before any
\* request is built. The two configurations differ.
C22_NoKeyVersusEmptyKey ==
  /\ client \in NoKeyClients =>
       /\ client.apiKeyValid
       /\ ret.err.kind # "invalid API key"
       /\ \A i \in 1..Len(reqs) : ~reqs[i].auth.set
  /\ client \in EmptyKeyClients =>
       /\ ~client.apiKeyValid
       /\ pc \in {"idle", "done"}
       /\ pc = "done" => (ret.err.kind = "invalid API key" /\ ret.val = NilVal)
       /\ reqs = <<>> /\ wire = <<>>
  /\ NoKeyClients \cap EmptyKeyClients = {}

C22_Witness ==
  /\ client \in NoKeyClients /\ client.apiKey = <<>>
  /\ op = "CreateGlue" /\ pc = "done" /\ ret.err = NoErr
  /\ Len(wire) = 2 /\ ~wire[1].auth.set /\ ~wire[2].auth.set

C22_WitnessEmptyKey ==
  /\ client \in EmptyKeyClients /\ client.apiKey = <<>>
  /\ op = "CreateGlue" /\ pc = "done" /\ ret.err.kind = "invalid API key"

\* C23: a list response whose result is an object without the collection
\* key, or with an empty collection, is an empty pre-list and no error: a
\* guarded create passes the guard and builds its mutating request, a guarded
\* update or delete returns 'does not exist' and builds none.
ListAnswered == op \in GuardedOps /\ nresp = 1 /\ resp.net = "ok" /\ resp.body = "object"

EmptyPreList ==
  /\ listed = [ok |-> TRUE, items |-> <<>>]
  /\ op \in CreateOps =>
       /\ Len(reqs) = 2 /\ reqs[2].method = ClaimTable(op)[2]
       /\ ret.err.kind \notin {"already exists", "does not exist", "missing result field",
                               "failed to decode response", "failed to unmarshal result"}
  /\ op \in ExistOps =>
       /\ pc = "done" /\ ret.val = NilVal /\ ret.err.kind = "does not exist"
       /\ Len(reqs) = 1 /\ NoMutatingRequest

C23_EmptyListing ==
  /\ (ListAnswered /\ resp.result = "object" /\ ~resp.hasColl) => EmptyPreList
  /\ (ListAnswered /\ resp.result = "object" /\ resp.hasColl /\ listed.items = <<>>) => EmptyPreList

C23_Witness ==
  /\ ListAnswered /\ resp.result = "object" /\ ~resp.hasColl
  /\ op = "CreateForward" /\ pc = "awaitFinal"
  /\ Len(wire) = 2 /\ wire[2].method = "add-forward"

C23_WitnessNotFound ==
  /\ ListAnswered /\ resp.result = "object" /\ resp.hasColl /\ listed.items = <<>>
  /\ op = "DeleteForward" /\ pc = "done" /\ ret.err.kind = "does not exist" /\ Len(wire) = 1

\* C25: the conflict and not-found errors of CreateForward and DeleteForward
\* name the forward in its direction: in 'from X to Y' (X and Y the first and
\* the second argument of the message) X is the parameters' From address and
\* Y the parameters' To address.
C25_ForwardMessage ==
  (op \in {"CreateForward", "DeleteForward"} /\ pc = "done"
     /\ ret.err.kind \in {"already exists", "does not exist"}) =>
    (ret.err.a = params.from /\ ret.err.b = params.to)

\* What the messages carry instead: the two addresses, in the other order.
C25_Swapped ==
  (op \in {"CreateForward", "DeleteForward"} /\ pc = "done"
     /\ ret.err.kind \in {"already exists", "does not exist"}) =>
    (ret.err.a = params.to /\ ret.err.b = params.from)

\* The options applied so far, the positions of a kind among them, and the
\* last such position (0 when there is none).
AppliedOptions == SubSeq(built.options, 1, built.n)
ClaimPositions(kind) == { i \in 1..built.n : built.options[i].opt = kind }
ClaimLast(kind) ==
  IF ClaimPositions(kind) = {} THEN 0
  ELSE CHOOSE i \in ClaimPositions(kind) : \A j \in ClaimPositions(kind) : j <= i

ClaimUserAgent(n, v) ==
  IF n # "" /\ v # "" THEN <<n, "/", v, " ", UserAgent>>
  ELSE IF n # "" THEN <<n, " ", UserAgent>>
  ELSE <<UserAgent>>

\* C24: options take effect in argument order and the last one wins: apiKey
\* is the key of the last APIKey option applied and apiKeyValid is the pattern
\* match of that same key (TRUE and no key when there is none), at every
\* point of the construction; the application name and version are those of
\* the last Application option; and the finished client's userAgent is
\* computed from that final name and version.
C24_LastOptionWins ==
  built.pc \in {"options", "ready"} =>
    LET k == ClaimLast("APIKey")
        a == ClaimLast("Application")
        name == IF a = 0 THEN "" ELSE built.options[a].name
        version == IF a = 0 THEN "" ELSE built.options[a].version
    IN /\ client.apiKey = (IF k = 0 THEN <<>> ELSE built.options[k].key)
       /\ client.apiKeyValid = (IF k = 0 THEN TRUE ELSE MatchString(built.options[k].key))
       /\ client.applicationName = name /\ client.applicationVersion = version
       /\ built.pc = "ready" =>
            /\ built.n = Len(built.options)
            /\ client.userAgent = ClaimUserAgent(name, version)
            /\ client = NewClient(built.options)

C24_Witness ==
  /\ built.pc = "ready" /\ Len(built.options) = 2
  /\ built.options[1].opt = "APIKey" /\ built.options[2].opt = "APIKey"
  /\ ~MatchString(built.options[1].key) /\ MatchString(built.options[2].key)
  /\ client.apiKey = built.options[2].key /\ client.apiKeyValid

C24_WitnessApplication ==
  /\ built.pc = "ready"
  /\ built.options = <<Application("Foo", "1.0"), Application("Foo", "")>>
  /\ client.userAgent = <<"Foo", " ", UserAgent>>

\* C26: the type assertion on DoRequest's result cannot fail: when DoRequest
\* is handed a non-nil typed pointer v and returns a nil error, the value it
\* returns is v, filled from the result, and never nil; DoRequest returns a
\* nil value with a nil error only when v is nil.
C26_AssertionSafe ==
  direct.pc = "returned" =>
    /\ (direct.v /\ direct.out.err = NoErr) =>
         /\ direct.out.val.k = "struct"
         /\ direct.out.val = Unmarshal(direct.r, direct.hasFields).v
    /\ (direct.out.val = NilVal /\ direct.out.err = NoErr) => ~direct.v
    /\ ~direct.v => direct.out.val = NilVal

C26_Witness ==
  /\ direct.pc = "returned" /\ direct.v /\ direct.r.result = "null"
  /\ direct.out.err = NoErr /\ direct.out.val.k = "struct"

C26_WitnessNilNil ==
  /\ direct.pc = "returned" /\ ~direct.v /\ direct.out = [val |-> NilVal, err |-> NoErr]

\* The same for the calls the sub-client functions make: each passes a
\* non-nil pointer, so a nil error comes with a non-nil value.
C26_SubClientCalls ==
  (nresp >= 1 /\ dres.err = NoErr) => dres.val.k = "struct"

====
